---- MODULE Spec2Model ----
(***************************************************************************)
(* Model of two fragments of the repository:                               *)
(*   - client/cli/src/commands/insert.rs : the `insert` subcommand, which  *)
(*     derives a public key from a secret URI and asks a node to insert    *)
(*     the key through the author_insertKey JSON-RPC method;               *)
(*   - frame/contracts/src/benchmarking.rs : expanded_contract, the        *)
(*     generator of the contract source used by the put_code benchmark.    *)
(* Texts are sequences of one-character strings, so that trimming,         *)
(* concatenation and containment are computed and not assumed.             *)
(***************************************************************************)
EXTENDS Integers, Sequences, FiniteSets, TLC

VARIABLES
    input,      \* per invocation: the command line and what its environment holds
    pc,         \* per invocation: the position in run() / its caller
    suri,       \* per invocation: the value bound by `let suri` (insert.rs:71)
    password,   \* per invocation: the value bound by `let password` (insert.rs:72-73)
    public,     \* per invocation: the value bound by `let public` (insert.rs:75-78)
    result,     \* per invocation: what run() returned
    conns,      \* per invocation: the connection attempts made, in order
    reqs,       \* per invocation: the JSON-RPC requests sent, in order
    rpc,        \* per invocation: how the RPC step ended
    stdout,     \* per invocation: the lines written to standard output
    stderr,     \* per invocation: the lines written to standard error
    exit,       \* per invocation: the process exit status (-1 while running)
    steps,      \* per invocation: history of the steps of run() started, in order
    failed,     \* per invocation: history of the steps that failed, in order
    exposed,    \* per invocation: places where expose_secret() handed out the password text
    b_pc,       \* expanded_contract: position
    b_n,        \* expanded_contract: the `expansions` argument
    b_i,        \* expanded_contract: the loop variable of `for _ in 1 .. expansions`
    b_cap,      \* expanded_contract: the capacity reserved by String::with_capacity
    b_contract  \* expanded_contract: the segments pushed to `contract`, in order

cliVars == <<input, pc, suri, password, public, result, conns, reqs, rpc,
             stdout, stderr, exit, steps, failed, exposed>>
benchVars == <<b_pc, b_n, b_i, b_cap, b_contract>>
vars == <<input, pc, suri, password, public, result, conns, reqs, rpc,
          stdout, stderr, exit, steps, failed, exposed,
          b_pc, b_n, b_i, b_cap, b_contract>>

----------------------------------------------------------------------------
(* Bounds of the model *)

\* key-type arguments of every length 0 .. MaxKeyTypeLen are tried
MaxKeyTypeLen == 5
\* expanded_contract is run for every expansions value 0 .. MaxExpansions
MaxExpansions == 14

----------------------------------------------------------------------------
(* Texts *)

None == [some |-> FALSE, val |-> <<>>]
Some(x) == [some |-> TRUE, val |-> x]

IsSpace(c) == c \in {" ", "\n", "\t"}

\* str::trim: drops leading and trailing whitespace
RECURSIVE TrimStart(_)
TrimStart(t) == IF t # <<>> /\ IsSpace(Head(t)) THEN TrimStart(Tail(t)) ELSE t
RECURSIVE TrimEnd(_)
TrimEnd(t) ==
    IF t # <<>> /\ IsSpace(t[Len(t)]) THEN TrimEnd(SubSeq(t, 1, Len(t) - 1)) ELSE t
Trim(t) == TrimEnd(TrimStart(t))

\* the positions at which `needle` occurs in `hay`
Occurrences(hay, needle) ==
    {i \in 1 .. (Len(hay) - Len(needle) + 1) : SubSeq(hay, i, i + Len(needle) - 1) = needle}
Contains(hay, needle) == Occurrences(hay, needle) # {}
Min(S) == CHOOSE x \in S : \A y \in S : x <= y

KeyTypeLetters == <<"g", "r", "a", "n", "d", "p", "a", "s">>
KeyTypes ==
    {SubSeq(KeyTypeLetters, 1, n) : n \in 0 .. MaxKeyTypeLen} \cup {<<"i", "m", "o", "n">>}

Passwords == {<<"p", "w", "1">>, <<"p", "w", "2">>}
Schemes == {"Sr25519", "Ed25519", "Ecdsa"}
NodeUrls == {None, Some("http://node:9944")}

PasswordSep == <<"/", "/", "/">>
SuriAlice == <<"/", "/", "A">>
SuriInline == <<"/", "/", "A", "/", "/", "/", "x">>
SuriBad == <<"!">>
SuriPath == <<"f">>
FileContent == <<" ", "/", "/", "B", " ", "\n">>
StdinLine == <<"/", "/", "C", " ">>

NoFile == [exists |-> FALSE, readable |-> FALSE, content |-> <<>>]
\* where the secret URI comes from: the --suri argument, the file it may name, standard input
SuriInputs ==
    {[arg |-> Some(a), file |-> NoFile, stdin |-> None] : a \in {SuriAlice, SuriInline, SuriBad}}
    \cup {[arg |-> Some(SuriPath), stdin |-> None,
           file |-> [exists |-> TRUE, readable |-> rd, content |-> FileContent]] : rd \in BOOLEAN}
    \cup {[arg |-> None, file |-> NoFile, stdin |-> s] : s \in {None, Some(StdinLine)}}

\* where the keystore password comes from: --password, or two interactive entries
PasswordInputs ==
    {[flag |-> None, interactive |-> FALSE, entry1 |-> <<>>, entry2 |-> <<>>]}
    \cup {[flag |-> Some(p), interactive |-> FALSE, entry1 |-> <<>>, entry2 |-> <<>>] :
            p \in Passwords}
    \cup {[flag |-> None, interactive |-> TRUE, entry1 |-> p1, entry2 |-> p2] :
            p1 \in {<<"p", "w", "1">>}, p2 \in Passwords}

Inputs ==
    [suri : SuriInputs, key_type : KeyTypes, node_url : NodeUrls,
     scheme : Schemes, pw : PasswordInputs]

----------------------------------------------------------------------------
(* Results and errors *)

NoErr == [kind |-> "", msg |-> "", data |-> <<>>]
Ok(v) == [ok |-> TRUE, val |-> v, err |-> NoErr]
Err(kind, msg, data) == [ok |-> FALSE, val |-> <<>>, err |-> [kind |-> kind, msg |-> msg, data |-> data]]
Pending == [ok |-> FALSE, val |-> <<>>, err |-> [kind |-> "pending", msg |-> "", data |-> <<>>]]

KeyTypeMsg == "Cannot convert argument to keytype: argument should be 4-character string"
DefaultNodeUrl == "http://localhost:9933"

----------------------------------------------------------------------------
(* Collaborators of run() *)

\* utils::read_uri: the secret URI from the argument, the file it names, or standard input
ReadUriOf(src) ==
    IF src.arg.some
    THEN IF src.file.exists
         THEN IF src.file.readable
              THEN Ok(Trim(src.file.content))
              ELSE Err("InputError", "cannot read file", <<>>)
         ELSE Ok(src.arg.val)
    ELSE IF src.stdin.some
         THEN Ok(src.stdin.val)
         ELSE Err("InputError", "no input available", <<>>)

\* KeystoreParams::read_password: the optional keystore password
ReadPasswordOf(pw) ==
    IF pw.flag.some
    THEN Ok(Some(pw.flag.val))
    ELSE IF pw.interactive
         THEN IF pw.entry1 = pw.entry2
              THEN Ok(Some(pw.entry1))
              ELSE Err("InputError", "passwords do not match", <<>>)
         ELSE Ok(None)

\* KeyTypeId::try_from(&str): exactly four bytes
KeyTypeIdTryFrom(key_type) ==
    IF Len(key_type) = 4 THEN Ok(key_type) ELSE Err("()", "", <<>>)

\* fixed public-key size of each scheme
PublicLen(scheme) == IF scheme = "Ecdsa" THEN 33 ELSE 32

NoKey == [scheme |-> "", seed |-> <<>>, pw |-> <<>>, len |-> 0]

\* utils::pair_from_suri: the key pair a secret URI and the keystore password derive.
\* The URI is split at its first "///" into the seed-and-path part and an inline
\* password; the inline password and the keystore password are concatenated.
PairFromSuri(scheme, uri, pass) ==
    LET at == Occurrences(uri, PasswordSep)
        base == IF at = {} THEN uri ELSE SubSeq(uri, 1, Min(at) - 1)
        inline == IF at = {} THEN <<>> ELSE SubSeq(uri, Min(at) + 3, Len(uri))
        kpw == IF pass.some THEN pass.val ELSE <<>>
    IN  IF base = <<>> \/ Contains(base, <<"!">>)
        THEN [ok |-> FALSE, val |-> NoKey,
              err |-> [kind |-> "CryptoError", msg |-> "Invalid phrase", data |-> <<>>]]
        ELSE [ok |-> TRUE,
              val |-> [scheme |-> scheme, seed |-> base, pw |-> inline \o kpw,
                       len |-> PublicLen(scheme)],
              err |-> NoErr]

\* to_vec::<P>: the public key of the derived pair, as bytes
ToVec(scheme, uri, pass) == PairFromSuri(scheme, uri, pass)

\* variant: the --node-url argument is not consulted
NodeUrlIgnoringArgument(arg) == DefaultNodeUrl

\* InsertCmd.node_url with its default
NodeUrl(arg) == IF arg.some THEN arg.val ELSE DefaultNodeUrl

\* sp_core::Bytes(public)
Bytes(v) == [bytes |-> v]

\* variant: the URI is trimmed once more before it is handed over
InsertKeyArgsTrimmed(r) ==
    [url |-> IF input[r].node_url.some THEN input[r].node_url.val ELSE DefaultNodeUrl,
     key_type |-> input[r].key_type,
     suri |-> Trim(suri[r]),
     public |-> [bytes |-> public[r]]]

\* variant: the keystore password is appended to the URI that is handed over
InsertKeyArgsWithPassword(r) ==
    [url |-> IF input[r].node_url.some THEN input[r].node_url.val ELSE DefaultNodeUrl,
     key_type |-> input[r].key_type,
     suri |-> IF password[r].some THEN suri[r] \o PasswordSep \o password[r].val ELSE suri[r],
     public |-> [bytes |-> public[r]]]

\* the arguments run() hands to insert_key
InsertKeyArgs(r) ==
    [url |-> NodeUrl(input[r].node_url),
     key_type |-> input[r].key_type,
     suri |-> suri[r],
     public |-> Bytes(public[r])]

\* the request AuthorClient::insert_key sends
AuthorInsertKey(a) ==
    [endpoint |-> a.url, method |-> "author_insertKey",
     params |-> [key_type |-> a.key_type, suri |-> a.suri, public |-> a.public]]

\* the errors a node may answer a request with; a node may quote what it was sent
RpcErrors(req) ==
    {[kind |-> "JsonRpcError", msg |-> "BadKey", data |-> d] :
        d \in {<<>>, req.params.key_type, req.params.suri}}

TransportErr == [kind |-> "Transport", msg |-> "connection failed", data |-> <<>>]

\* println!("Error inserting key: {:?}", e)
InsertKeyDiagnostic(e) == [text |-> "Error inserting key: ", err |-> e]

\* the caller's report of an error returned by run()
MainDiagnostic(e) == [text |-> "Error: ", err |-> e]

----------------------------------------------------------------------------
(* run() and insert_key(), one action per step *)

Runs == DOMAIN pc

Goto(r, l) == pc' = [pc EXCEPT ![r] = l]
Started(r, s) == steps' = [steps EXCEPT ![r] = Append(@, s)]
\* `?`: the error is returned from run() at once
Fail(r, s, e) ==
    /\ result' = [result EXCEPT ![r] = [ok |-> FALSE, val |-> <<>>, err |-> e]]
    /\ failed' = [failed EXCEPT ![r] = Append(@, s)]
    /\ Goto(r, "Returned")

\* let suri = utils::read_uri(self.suri.as_ref())?;
ReadUri(r) ==
    /\ pc[r] = "ReadingInput"
    /\ Started(r, "read_uri")
    /\ LET u == ReadUriOf(input[r].suri)
       IN  IF u.ok
           THEN /\ suri' = [suri EXCEPT ![r] = u.val]
                /\ Goto(r, "ReadingPassword")
                /\ UNCHANGED <<result, failed>>
           ELSE /\ Fail(r, "read_uri", u.err)
                /\ UNCHANGED suri
    /\ UNCHANGED <<input, password, public, conns, reqs, rpc, stdout, stderr, exit, exposed>>
    /\ UNCHANGED benchVars

\* let password = self.keystore_params.read_password()?;
\* let password = password.as_ref().map(|s| s.expose_secret().as_str());
ReadPassword(r) ==
    /\ pc[r] = "ReadingPassword"
    /\ Started(r, "read_password")
    /\ LET p == ReadPasswordOf(input[r].pw)
       IN  IF p.ok
           THEN /\ password' = [password EXCEPT ![r] = p.val]
                /\ exposed' = [exposed EXCEPT ![r] =
                                 IF p.val.some THEN @ \cup {"key_derivation"} ELSE @]
                /\ Goto(r, "Deriving")
                /\ UNCHANGED <<result, failed>>
           ELSE /\ Fail(r, "read_password", p.err)
                /\ UNCHANGED <<password, exposed>>
    /\ UNCHANGED <<input, suri, public, conns, reqs, rpc, stdout, stderr, exit>>
    /\ UNCHANGED benchVars

\* let public = with_crypto_scheme!(self.crypto_scheme.scheme, to_vec(&suri, password))?;
Derive(r) ==
    /\ pc[r] = "Deriving"
    /\ Started(r, "derive")
    /\ LET k == ToVec(input[r].scheme, suri[r], password[r])
       IN  IF k.ok
           THEN /\ public' = [public EXCEPT ![r] = k.val]
                /\ Goto(r, "Validating")
                /\ UNCHANGED <<result, failed>>
           ELSE /\ Fail(r, "derive", k.err)
                /\ UNCHANGED public
    /\ UNCHANGED <<input, suri, password, conns, reqs, rpc, stdout, stderr, exit, exposed>>
    /\ UNCHANGED benchVars

\* variant: the result of the conversion is dropped without `?`
ValidateUnchecked(r) ==
    /\ pc[r] = "Validating"
    /\ steps' = [steps EXCEPT ![r] = Append(@, "validate")]
    /\ pc' = [pc EXCEPT ![r] = "Dispatching"]
    /\ UNCHANGED <<input, suri, password, public, result, conns, reqs, rpc, stdout, stderr,
                   exit, failed, exposed>>
    /\ UNCHANGED benchVars

\* let _key_type_id = KeyTypeId::try_from(key_type.as_str()).map_err(|_| Error::Other(..))?;
Validate(r) ==
    /\ pc[r] = "Validating"
    /\ Started(r, "validate")
    /\ IF KeyTypeIdTryFrom(input[r].key_type).ok
       THEN /\ Goto(r, "Dispatching")
            /\ UNCHANGED <<result, failed>>
       ELSE Fail(r, "validate", [kind |-> "Other", msg |-> KeyTypeMsg, data |-> <<>>])
    /\ UNCHANGED <<input, suri, password, public, conns, reqs, rpc, stdout, stderr, exit,
                   exposed>>
    /\ UNCHANGED benchVars

\* insert_key: http::connect(&url), and on its failure the map_err closure
Connect(r) ==
    /\ pc[r] = "Dispatching"
    /\ Started(r, "dispatch")
    /\ \E up \in BOOLEAN :
        /\ conns' = [conns EXCEPT ![r] = Append(@, [url |-> InsertKeyArgs(r).url, ok |-> up])]
        /\ IF up
           THEN /\ Goto(r, "Requesting")
                /\ UNCHANGED <<rpc, stdout, failed>>
           ELSE /\ rpc' = [rpc EXCEPT ![r] = "connect_failed"]
                /\ stdout' = [stdout EXCEPT ![r] = Append(@, InsertKeyDiagnostic(TransportErr))]
                /\ failed' = [failed EXCEPT ![r] = Append(@, "dispatch")]
                /\ Goto(r, "Returning")
    /\ UNCHANGED <<input, suri, password, public, result, reqs, stderr, exit, exposed>>
    /\ UNCHANGED benchVars

\* variant: a request that failed is sent once more
RequestRetrying(r) ==
    /\ pc[r] = "Requesting"
    /\ reqs' = [reqs EXCEPT ![r] = Append(@,
                  [endpoint |-> IF input[r].node_url.some THEN input[r].node_url.val
                                ELSE DefaultNodeUrl,
                   method |-> "author_insertKey",
                   params |-> [key_type |-> input[r].key_type, suri |-> suri[r],
                               public |-> [bytes |-> public[r]]]])]
    /\ \/ /\ rpc' = [rpc EXCEPT ![r] = "success"]
          /\ pc' = [pc EXCEPT ![r] = "Returning"]
          /\ UNCHANGED <<stdout, failed>>
       \/ /\ rpc' = [rpc EXCEPT ![r] = "rpc_error"]
          /\ pc' = [pc EXCEPT ![r] = IF reqs[r] = <<>> THEN "Requesting" ELSE "Returning"]
          /\ stdout' = [stdout EXCEPT ![r] =
                          Append(@, [text |-> "Error inserting key: ",
                                     err |-> [kind |-> "Transport", msg |-> "connection failed",
                                              data |-> <<>>]])]
          /\ failed' = [failed EXCEPT ![r] = Append(@, "dispatch")]
    /\ UNCHANGED <<input, suri, password, public, result, conns, stderr, exit, steps, exposed>>
    /\ UNCHANGED benchVars

\* insert_key: client.insert_key(key_type, suri, public).map(|_| ()), and on its failure
\* the map_err closure
Request(r) ==
    /\ pc[r] = "Requesting"
    /\ LET req == AuthorInsertKey(InsertKeyArgs(r))
       IN  /\ reqs' = [reqs EXCEPT ![r] = Append(@, req)]
           /\ \/ /\ rpc' = [rpc EXCEPT ![r] = "success"]
                 /\ UNCHANGED <<stdout, failed>>
              \/ \E e \in RpcErrors(req) \cup {TransportErr} :
                    /\ rpc' = [rpc EXCEPT ![r] = "rpc_error"]
                    /\ stdout' = [stdout EXCEPT ![r] = Append(@, InsertKeyDiagnostic(e))]
                    /\ failed' = [failed EXCEPT ![r] = Append(@, "dispatch")]
    /\ Goto(r, "Returning")
    /\ UNCHANGED <<input, suri, password, public, result, conns, stderr, exit, steps, exposed>>
    /\ UNCHANGED benchVars

\* rt::run has returned; run() ends with Ok(())
ReturnOk(r) ==
    /\ pc[r] = "Returning"
    /\ result' = [result EXCEPT ![r] = Ok(<<>>)]
    /\ Goto(r, "Returned")
    /\ UNCHANGED <<input, suri, password, public, conns, reqs, rpc, stdout, stderr, exit,
                   steps, failed, exposed>>
    /\ UNCHANGED benchVars

\* the caller of run(): reports an error on standard error and sets the exit status
Exit(r) ==
    /\ pc[r] = "Returned"
    /\ IF result[r].ok
       THEN /\ exit' = [exit EXCEPT ![r] = 0]
            /\ Goto(r, "Done")
            /\ UNCHANGED stderr
       ELSE /\ exit' = [exit EXCEPT ![r] = 1]
            /\ stderr' = [stderr EXCEPT ![r] = Append(@, MainDiagnostic(result[r].err))]
            /\ Goto(r, "Failed")
    /\ UNCHANGED <<input, suri, password, public, result, conns, reqs, rpc, stdout,
                   steps, failed, exposed>>
    /\ UNCHANGED benchVars

----------------------------------------------------------------------------
(* expanded_contract *)

ContractStartLen == 93
ContractExpansionLen == 14
ContractEndLen == 2

SegmentLen(seg) ==
    IF seg = "CONTRACT_START" THEN ContractStartLen
    ELSE IF seg = "CONTRACT_EXPANSION" THEN ContractExpansionLen
    ELSE ContractEndLen

\* String::len of the contract built so far
RECURSIVE ContractLen(_)
ContractLen(c) == IF c = <<>> THEN 0 ELSE SegmentLen(Head(c)) + ContractLen(Tail(c))

\* variant: the range starts at 0
RangeStartZero == 1 - 1

\* the first value of the range `1 .. expansions`
RangeStart == 1

\* let expansion_len = ..; let len = ..; String::with_capacity(len); push_str(CONTRACT_START)
BenchReserve ==
    /\ b_pc = "start"
    /\ LET expansion_len == ContractExpansionLen * b_n
           len == ContractStartLen + expansion_len + ContractEndLen
       IN  b_cap' = len
    /\ b_contract' = <<"CONTRACT_START">>
    /\ b_i' = RangeStart
    /\ b_pc' = "loop"
    /\ UNCHANGED b_n
    /\ UNCHANGED cliVars

\* for _ in 1 .. expansions { contract.push_str(CONTRACT_EXPANSION); }
BenchExpand ==
    /\ b_pc = "loop"
    /\ b_i < b_n
    /\ b_contract' = Append(b_contract, "CONTRACT_EXPANSION")
    /\ b_i' = b_i + 1
    /\ UNCHANGED <<b_pc, b_n, b_cap>>
    /\ UNCHANGED cliVars

\* contract.push_str(CONTRACT_END)
BenchEnd ==
    /\ b_pc = "loop"
    /\ ~(b_i < b_n)
    /\ b_contract' = Append(b_contract, "CONTRACT_END")
    /\ b_pc' = "compile"
    /\ UNCHANGED <<b_n, b_i, b_cap>>
    /\ UNCHANGED cliVars

\* compile_code::<T>(&contract)
BenchCompile ==
    /\ b_pc = "compile"
    /\ b_pc' = "done"
    /\ UNCHANGED <<b_n, b_i, b_cap, b_contract>>
    /\ UNCHANGED cliVars

----------------------------------------------------------------------------
(* Specifications *)

BenchIdle ==
    /\ b_pc = "idle"
    /\ b_n = 0
    /\ b_i = 0
    /\ b_cap = 0
    /\ b_contract = <<>>

CliInit(R) ==
    /\ pc = [r \in R |-> "ReadingInput"]
    /\ suri = [r \in R |-> <<>>]
    /\ password = [r \in R |-> None]
    /\ public = [r \in R |-> NoKey]
    /\ result = [r \in R |-> Pending]
    /\ conns = [r \in R |-> <<>>]
    /\ reqs = [r \in R |-> <<>>]
    /\ rpc = [r \in R |-> "none"]
    /\ stdout = [r \in R |-> <<>>]
    /\ stderr = [r \in R |-> <<>>]
    /\ exit = [r \in R |-> -1]
    /\ steps = [r \in R |-> <<>>]
    /\ failed = [r \in R |-> <<>>]
    /\ exposed = [r \in R |-> {}]

\* one invocation of the command, on any command line
Init ==
    /\ input \in [{1} -> Inputs]
    /\ CliInit({1})
    /\ BenchIdle

\* two invocations whose command lines differ only in the keystore password
InitPair ==
    /\ input \in {f \in [{1, 2} -> Inputs] :
                    /\ f[1].pw # f[2].pw
                    /\ f[2] = [f[1] EXCEPT !.pw = f[2].pw]}
    /\ CliInit({1, 2})
    /\ BenchIdle

\* one call of expanded_contract by the put_code benchmark
InitBench ==
    /\ input = << >>
    /\ CliInit({})
    /\ b_pc = "start"
    /\ b_n \in 0 .. MaxExpansions
    /\ b_i = 0
    /\ b_cap = 0
    /\ b_contract = <<>>

Next ==
    \/ \E r \in Runs : ReadUri(r)
    \/ \E r \in Runs : ReadPassword(r)
    \/ \E r \in Runs : Derive(r)
    \/ \E r \in Runs : Validate(r)
    \/ \E r \in Runs : Connect(r)
    \/ \E r \in Runs : Request(r)
    \/ \E r \in Runs : ReturnOk(r)
    \/ \E r \in Runs : Exit(r)

NextBench ==
    \/ BenchReserve
    \/ BenchExpand
    \/ BenchEnd
    \/ BenchCompile

Spec == Init /\ [][Next]_vars
SpecPair == InitPair /\ [][Next]_vars
SpecBench == InitBench /\ [][NextBench]_vars

----------------------------------------------------------------------------
(* Properties *)

Returned(r) == pc[r] \in {"Returned", "Done", "Failed"}
BadKeyType(r) == Len(input[r].key_type) # 4
KeyTypeError == [kind |-> "Other", msg |-> KeyTypeMsg, data |-> <<>>]

\* what the inputs of invocation r make of the four steps before the RPC
UriRead(r) == ReadUriOf(input[r].suri)
PasswordRead(r) == ReadPasswordOf(input[r].pw)
KeyDerived(r) == ToVec(input[r].scheme, UriRead(r).val, PasswordRead(r).val)
Prepared(r) ==
    /\ UriRead(r).ok
    /\ PasswordRead(r).ok
    /\ KeyDerived(r).ok
    /\ Len(input[r].key_type) = 4

\* C1, as stated: whenever --key-type is not 4 characters long, run() fails with the
\* key-type error, and no connection is opened and no request is sent.
C1_AsStated ==
    \A r \in Runs : BadKeyType(r) =>
        /\ conns[r] = <<>>
        /\ reqs[r] = <<>>
        /\ Returned(r) => (~result[r].ok /\ result[r].err = KeyTypeError)

\* C1, amended: whenever --key-type is not 4 characters long, run() fails, no connection
\* is opened and no request is sent; the error is the key-type error when URI reading,
\* password reading and key derivation succeeded, and otherwise the error of the first
\* of those three steps that failed.
C1_BadKeyTypeRejected ==
    \A r \in Runs : BadKeyType(r) =>
        /\ conns[r] = <<>>
        /\ reqs[r] = <<>>
        /\ pc[r] \notin {"Dispatching", "Requesting", "Returning", "Done"}
        /\ Returned(r) =>
            /\ ~result[r].ok
            /\ result[r].err =
                 IF ~UriRead(r).ok THEN UriRead(r).err
                 ELSE IF ~PasswordRead(r).ok THEN PasswordRead(r).err
                 ELSE IF ~KeyDerived(r).ok THEN KeyDerived(r).err
                 ELSE KeyTypeError

\* a run with a 5-character key type whose earlier steps succeeded has failed
C1_Witness ==
    \E r \in Runs :
        /\ Len(input[r].key_type) = 5
        /\ pc[r] = "Failed"
        /\ steps[r] = <<"read_uri", "read_password", "derive", "validate">>
        /\ result[r].err = KeyTypeError

\* C2: run() returns Ok only if the node answered the author_insertKey request
\* successfully; a failed connection or a JSON-RPC error ends the run in Failed, exit 1.
C2_RpcFailureFailsRun ==
    \A r \in Runs :
        /\ (Returned(r) /\ result[r].ok) => rpc[r] = "success"
        /\ (rpc[r] \in {"connect_failed", "rpc_error"}) => pc[r] # "Done" /\ exit[r] # 0

StepOrder == <<"read_uri", "read_password", "derive", "validate", "dispatch">>

\* the steps started so far are the first steps of the fixed order, each once
InOrder(r) == steps[r] = SubSeq(StepOrder, 1, Len(steps[r]))

\* C3: the steps run in the order read URI, read password, derive, validate, dispatch;
\* none is skipped or repeated; the first step that fails moves the run to Failed and
\* no later step runs.
C3_LinearSteps ==
    \A r \in Runs :
        /\ Len(steps[r]) <= Len(StepOrder)
        /\ InOrder(r)
        /\ Len(failed[r]) <= 1
        /\ failed[r] # <<>> =>
            /\ failed[r][1] = steps[r][Len(steps[r])]
            /\ pc[r] # "Done"
            /\ Returned(r) => ~result[r].ok

Established(r) == conns[r] # <<>> /\ conns[r][Len(conns[r])].ok

\* C4, as stated: at most one request per invocation, exactly one when URI reading,
\* password reading, key derivation and key-type validation all succeed, none otherwise.
C4_AsStated ==
    \A r \in Runs :
        /\ Len(reqs[r]) <= 1
        /\ Returned(r) => (Len(reqs[r]) = 1 <=> Prepared(r))

\* C4, amended: at most one connection attempt and at most one request per invocation;
\* exactly one request when the four steps before the RPC all succeed and the connection
\* to the endpoint is established, none otherwise; nothing is retried.
C4_OneShot ==
    \A r \in Runs :
        /\ Len(reqs[r]) <= 1
        /\ Len(conns[r]) <= 1
        /\ reqs[r] # <<>> => Prepared(r) /\ Established(r)
        /\ Returned(r) => (Len(reqs[r]) = 1 <=> (Prepared(r) /\ Established(r)))
        /\ Returned(r) => (Len(conns[r]) = 1 <=> Prepared(r))

\* a run whose single request failed has returned without a second request
C4_Witness ==
    \E r \in Runs :
        /\ Returned(r)
        /\ rpc[r] = "rpc_error"
        /\ Len(reqs[r]) = 1
        /\ Len(conns[r]) = 1

\* C5: every request sent is author_insertKey with the parameters [key_type, suri, public]:
\* the --key-type argument, the string the URI reader returned, and the public key that
\* this string and the keystore password derive under the selected scheme.
C5_RequestParameters ==
    \A r \in Runs : \A i \in DOMAIN reqs[r] :
        /\ reqs[r][i].method = "author_insertKey"
        /\ DOMAIN reqs[r][i].params = {"key_type", "suri", "public"}
        /\ reqs[r][i].params.key_type = input[r].key_type
        /\ reqs[r][i].params.suri = UriRead(r).val
        /\ reqs[r][i].params.public = [bytes |-> KeyDerived(r).val]

\* a request was sent for a URI that ends in a blank, with a keystore password set
C5_Witness ==
    \E r \in Runs :
        /\ reqs[r] # <<>>
        /\ reqs[r][1].params.suri = StdinLine
        /\ Trim(StdinLine) # StdinLine
        /\ password[r].some

\* C6: nothing is ever written to standard output; a failing run writes a single
\* diagnostic line to standard error, and a run that has not failed writes none.
C6_DiagnosticsOnStderr ==
    \A r \in Runs :
        /\ stdout[r] = <<>>
        /\ pc[r] = "Failed" => Len(stderr[r]) = 1
        /\ pc[r] # "Failed" => stderr[r] = <<>>

\* every password text the invocation was given: the flag and the interactive entries
PasswordTexts(r) ==
    {input[r].pw.flag.val, input[r].pw.entry1, input[r].pw.entry2} \ {<<>>}

\* the texts a written line carries besides its fixed wording
Written(r) ==
    {stdout[r][i].err.data : i \in DOMAIN stdout[r]}
    \cup {stderr[r][i].err.data : i \in DOMAIN stderr[r]}

\* C7: the text of the keystore password appears in no line written to standard output
\* or standard error, on any path; its text is exposed only for key derivation.
C7_PasswordNotPrinted ==
    \A r \in Runs :
        /\ exposed[r] \subseteq {"key_derivation"}
        /\ \A t \in Written(r) : \A p \in PasswordTexts(r) : ~Contains(t, p)

\* with a keystore password set, a line quoting what the node was sent has been written
C7_Witness ==
    \E r \in Runs :
        /\ password[r].some
        /\ exposed[r] = {"key_derivation"}
        /\ \E i \in DOMAIN stdout[r] : stdout[r][i].err.data = suri[r]

\* C8: the endpoint connected to, and the endpoint of every request, is the --node-url
\* argument when given and "http://localhost:9933" otherwise.
C8_Endpoint ==
    \A r \in Runs :
        LET endpoint == IF input[r].node_url.some
                        THEN input[r].node_url.val
                        ELSE "http://localhost:9933"
        IN  /\ \A i \in DOMAIN conns[r] : conns[r][i].url = endpoint
            /\ \A i \in DOMAIN reqs[r] : reqs[r][i].endpoint = endpoint

\* a request went to the endpoint given by --node-url, which is not the default one
C8_Witness ==
    \E r \in Runs :
        /\ input[r].node_url.some
        /\ input[r].node_url.val # "http://localhost:9933"
        /\ reqs[r] # <<>>
        /\ reqs[r][1].endpoint = input[r].node_url.val

Copies(c) == Cardinality({i \in DOMAIN c : c[i] = "CONTRACT_EXPANSION"})

\* C9: expanded_contract(n) builds CONTRACT_START, then n - 1 copies of the expansion
\* when n >= 1 and none when n = 0, then CONTRACT_END; never n copies for n >= 1; the
\* string built never exceeds the capacity reserved for n copies.
C9_ExpansionCount ==
    /\ b_pc \in {"compile", "done"} =>
        /\ b_contract =
             <<"CONTRACT_START">>
             \o [i \in 1 .. (IF b_n >= 1 THEN b_n - 1 ELSE 0) |-> "CONTRACT_EXPANSION"]
             \o <<"CONTRACT_END">>
        /\ b_n >= 1 => Copies(b_contract) # b_n
        /\ b_n = 0 => Copies(b_contract) = 0
    /\ b_pc \in {"loop", "compile", "done"} =>
        /\ b_cap = 93 + 14 * b_n + 2
        /\ ContractLen(b_contract) <= b_cap
    /\ b_i >= 0

\* a contract of several expansions has been built, one copy short of its argument
C9_Witness ==
    /\ b_pc = "done"
    /\ b_n >= 2
    /\ Copies(b_contract) = b_n - 1
    /\ ContractLen(b_contract) = b_cap - 14

\* C10: the keystore password is not transmitted, and two invocations that differ only
\* in the keystore password send requests to the same endpoint with the same key_type
\* and the same suri; only the public key may differ.
C10_PasswordOnlyInPublicKey ==
    /\ \A r \in Runs : \A i \in DOMAIN reqs[r] : \A p \in PasswordTexts(r) :
            /\ ~Contains(reqs[r][i].params.key_type, p)
            /\ ~Contains(reqs[r][i].params.suri, p)
    /\ \A a, b \in Runs : \A i \in DOMAIN reqs[a] : \A j \in DOMAIN reqs[b] :
            /\ reqs[a][i].endpoint = reqs[b][j].endpoint
            /\ reqs[a][i].method = reqs[b][j].method
            /\ reqs[a][i].params.key_type = reqs[b][j].params.key_type
            /\ reqs[a][i].params.suri = reqs[b][j].params.suri

\* both invocations sent a request; the public keys differ, and one of them is not the
\* key that the transmitted suri derives without a password
C10_Witness ==
    \E a, b \in Runs :
        /\ a # b
        /\ reqs[a] # <<>>
        /\ reqs[b] # <<>>
        /\ reqs[a][1].params.public # reqs[b][1].params.public
        /\ reqs[a][1].params.public #
             [bytes |-> ToVec(input[a].scheme, reqs[a][1].params.suri, None).val]

====
